---- MODULE Spec2Model ----
(***************************************************************************)
(* Model of src/main.py: the render pipeline (render_video), the encoder   *)
(* fallback ladder (write_video_robust), the per-job wrapper               *)
(* (render_single_video_safe) and the batch orchestrator                   *)
(* (render_batch_videos) running jobs on a ThreadPoolExecutor.             *)
(***************************************************************************)
EXTENDS Integers, Sequences, FiniteSets, TLC

\* ------------------------------------------------------------------ bounds
MaxJobs == 2
MaxRequested == 2

\* the hard cap on workers, main.py line 723
HostCap == 3

Jobs == 1..MaxJobs

\* the keys of MOOD_BACKGROUNDS, main.py lines 80-105
MOOD_BACKGROUNDS == {"toxic", "reflective", "emotional", "dramatic"}

\* the moods the requests of the model carry: one that is a catalog key only
\* after lower(), one that is no key at all
MoodInputs == {"TOXIC", "unknown"}

\* str.lower() on the moods of the model
Lower(s) ==
    CASE s = "TOXIC" -> "toxic"
      [] s = "Toxic" -> "toxic"
      [] OTHER -> s

\* sizes of a response body written to disk: empty, a few bytes that are no media
\* file, a real media file
TinyBody == 3
FullBody == 4096
BodySizes == {0, TinyBody, FullBody}
\* sizes of the file an encoder strategy leaves at output_path when it reports success
OutputSizes == {0, FullBody}

\* whether VideoFileClip / AudioFileClip can find a stream in a file of that many bytes
Decodable(size) == size >= FullBody

VARIABLES
    \* ---- the batch request and render_batch_videos' locals
    videos,             \* batch_data.videos: the moods of the requests, in submission order
    max_concurrent,     \* batch_data.max_concurrent
    bpc,                \* where render_batch_videos is
    max_workers,
    submitted,          \* how many requests were handed to executor.submit
    queue,              \* the executor's work queue: submitted jobs no worker took yet
    finishedOrder,      \* the jobs in the order their futures were set
    snapshot,           \* the futures already finished when as_completed looked first
    results,
    successful_renders,
    failed_renders,
    summary,
    \* ---- one render_video call per job
    pc,
    tempDir,            \* "none" | "exists" | "removed"
    audioBody,          \* bytes of the narration written to disk, -1: none
    bgBody,             \* bytes of the background written to disk, -1: none
    fetched,            \* the downloads requested so far
    attempts,           \* the encoder strategies tried, each with how it ended
    ffmpeg,             \* what the direct ffmpeg run of method 3 returned
    writeSuccess,       \* write_video_robust's return value: "pending" | "True" | "False"
    outBytes,           \* bytes written at output_path, -1: none
    uploads,            \* calls of upload_to_dropbox
    uploadOk,
    cleanups,           \* calls of shutil.rmtree(temp_dir)
    outcome,            \* "none" | "ok" | the detail of the HTTPException raised
    future,             \* the job's future
    \* ---- the timing of one composition (render_video, lines 370-560)
    tpc,                \* where the composition is
    bgSec,              \* background_video.duration as loaded, in seconds
    audioSec,           \* audio_clip.duration, in seconds
    nChunks,            \* len(chunks)
    audio_duration,     \* in ticks
    subtitle_start_delay,   \* in ticks
    chunkNum,           \* chunk_duration is chunkNum / nChunks ticks (chunkNum ticks when there is no chunk)
    chunkIdx,           \* the loop variable i
    clips,              \* the overlay clips appended to clips, in order
    bg_duration,        \* background_video.duration after the cuts, in ticks
    chunkLog,           \* the TextClip attempts made for the chunk of the last round
    valid_clips,        \* the clips that passed the validation of lines 590-605
    final_video,        \* the composite handed to write_video_robust
    \* ---- the chunking of the body (render_video, lines 437-467)
    cpc,                \* where the chunking is
    body,               \* expanded_body, a sequence of characters
    sentences,
    sentIdx,            \* how many sentences the loop of line 448 has taken
    chunks,
    \* ---- the fitting of the background to the frame (render_video, lines 312-364)
    gpc,                \* where the fitting is
    srcW,               \* background_video.w as loaded
    srcH,               \* background_video.h as loaded
    bigFile,            \* os.path.getsize(background_path) > 50 MB
    target_width,
    target_height,
    frameW,             \* background_video.w now
    frameH,             \* background_video.h now
    geoOps,             \* the calls made on the clip: "resize", "crop"
    geoError,           \* the exception the fitting raised, "none" when none
    \* ---- the files of the jobs that run at the same time (render_video)
    fpc,                \* where each job is with its files
    temp_dir,           \* each job's temp_dir, 0 for None
    disk,               \* the directories under the system's temporary directory
    foreign             \* the accesses made in a directory another job made

jobVars == <<pc, tempDir, audioBody, bgBody, fetched, attempts, ffmpeg, writeSuccess,
             outBytes, uploads, uploadOk, cleanups, outcome, future>>
poolVars == <<queue, finishedOrder>>
batchVars == <<videos, max_concurrent, bpc, max_workers, submitted, snapshot, results,
               successful_renders, failed_renders, summary>>
tlVars == <<tpc, bgSec, audioSec, nChunks, audio_duration, subtitle_start_delay,
            chunkNum, chunkIdx, clips, bg_duration, chunkLog, valid_clips, final_video>>
chVars == <<cpc, body, sentences, sentIdx, chunks>>
geoVars == <<gpc, srcW, srcH, bigFile, target_width, target_height, frameW, frameH,
             geoOps, geoError>>
fsVars == <<fpc, temp_dir, disk, foreign>>
vars == <<batchVars, poolVars, jobVars, tlVars, chVars, geoVars, fsVars>>

nVideos == Len(videos)
Submitted == 1..nVideos

Min2(a, b) == IF a <= b THEN a ELSE b

RunningPcs == {"mkdtemp", "download_audio", "verify_audio", "check_mood",
               "download_background", "verify_background", "normalize", "load_audio",
               "compose", "method1", "method2", "method3", "ffmpeg", "return_false",
               "after_encode",
               "verify_output", "upload", "return", "finally", "wrapper"}
EncodingPcs == {"method1", "method2", "method3", "ffmpeg"}

Running == {j \in Jobs : pc[j] \in RunningPcs}

\* (mutant) the pool sized without the requested concurrency
MaxWorkersIgnoresRequest(k, n) == Min2(n, HostCap)

\* max_workers = min(batch_data.max_concurrent, len(batch_data.videos), 3)
MaxWorkers(k, n) == Min2(Min2(k, n), HostCap)

NoFfmpeg == [status |-> "none", rc |-> 0, audio |-> FALSE]
PendingFuture == [kind |-> "pending", success |-> FALSE, error |-> "none"]
NoSummary == [made |-> FALSE, total_videos |-> 0, successful_renders |-> 0,
              failed_renders |-> 0, results |-> <<>>]

\* before the validation loop has run
NoValidClips == [background |-> FALSE, overlays |-> <<>>]
\* before CompositeVideoClip(valid_clips): the composite ends at end / den ticks and
\* carries audio ticks of narration
NoFinalVideo == [made |-> FALSE, end |-> 0, den |-> 1, audio |-> 0]

\* no composition is being timed
TlIdle ==
    /\ tpc = "idle"
    /\ bgSec = 0
    /\ audioSec = 0
    /\ nChunks = 0
    /\ audio_duration = 0
    /\ subtitle_start_delay = 0
    /\ chunkNum = 0
    /\ chunkIdx = 0
    /\ clips = <<>>
    /\ bg_duration = 0
    /\ chunkLog = <<>>
    /\ valid_clips = NoValidClips
    /\ final_video = NoFinalVideo

\* no body is being chunked
ChIdle ==
    /\ cpc = "idle"
    /\ body = <<>>
    /\ sentences = <<>>
    /\ sentIdx = 0
    /\ chunks = <<>>

\* no background is being fitted
GeoIdle ==
    /\ gpc = "idle"
    /\ srcW = 0
    /\ srcH = 0
    /\ bigFile = FALSE
    /\ target_width = 0
    /\ target_height = 0
    /\ frameW = 0
    /\ frameH = 0
    /\ geoOps = <<>>
    /\ geoError = "none"

\* the names tempfile.mkdtemp() can give: one for each job, so that a free name is
\* left whatever the other jobs have taken
DirNames == 1..MaxJobs

\* a name under which there is no directory
NoDir == [made |-> FALSE, owner |-> 0, files |-> {}]

\* no files are being followed
FsIdle ==
    /\ fpc = [j \in Jobs |-> "idle"]
    /\ temp_dir = [j \in Jobs |-> 0]
    /\ disk = [d \in DirNames |-> NoDir]
    /\ foreign = {}

\* no job of a batch is running
JobsIdle ==
    /\ videos = <<>>
    /\ max_concurrent = 0
    /\ bpc = "idle"
    /\ max_workers = 0
    /\ submitted = 0
    /\ queue = <<>>
    /\ finishedOrder = <<>>
    /\ snapshot = {}
    /\ results = <<>>
    /\ successful_renders = 0
    /\ failed_renders = 0
    /\ summary = NoSummary
    /\ pc = [j \in Jobs |-> "absent"]
    /\ tempDir = [j \in Jobs |-> "none"]
    /\ audioBody = [j \in Jobs |-> -1]
    /\ bgBody = [j \in Jobs |-> -1]
    /\ fetched = [j \in Jobs |-> {}]
    /\ attempts = [j \in Jobs |-> <<>>]
    /\ ffmpeg = [j \in Jobs |-> NoFfmpeg]
    /\ writeSuccess = [j \in Jobs |-> "pending"]
    /\ outBytes = [j \in Jobs |-> -1]
    /\ uploads = [j \in Jobs |-> 0]
    /\ uploadOk = [j \in Jobs |-> FALSE]
    /\ cleanups = [j \in Jobs |-> 0]
    /\ outcome = [j \in Jobs |-> "none"]
    /\ future = [j \in Jobs |-> PendingFuture]

Init ==
    /\ TlIdle
    /\ ChIdle
    /\ GeoIdle
    /\ FsIdle
    /\ videos \in UNION {[1..n -> MoodInputs] : n \in 0..MaxJobs}
    /\ max_concurrent \in 0..MaxRequested
    /\ bpc = "start"
    /\ max_workers = 0
    /\ submitted = 0
    /\ queue = <<>>
    /\ finishedOrder = <<>>
    /\ snapshot = {}
    /\ results = <<>>
    /\ successful_renders = 0
    /\ failed_renders = 0
    /\ summary = NoSummary
    /\ pc = [j \in Jobs |-> "absent"]
    /\ tempDir = [j \in Jobs |-> "none"]
    /\ audioBody = [j \in Jobs |-> -1]
    /\ bgBody = [j \in Jobs |-> -1]
    /\ fetched = [j \in Jobs |-> {}]
    /\ attempts = [j \in Jobs |-> <<>>]
    /\ ffmpeg = [j \in Jobs |-> NoFfmpeg]
    /\ writeSuccess = [j \in Jobs |-> "pending"]
    /\ outBytes = [j \in Jobs |-> -1]
    /\ uploads = [j \in Jobs |-> 0]
    /\ uploadOk = [j \in Jobs |-> FALSE]
    /\ cleanups = [j \in Jobs |-> 0]
    /\ outcome = [j \in Jobs |-> "none"]
    /\ future = [j \in Jobs |-> PendingFuture]

\* ------------------------------------------------------- render_video (one job)

\* the detail of the HTTPException an unexpected exception is turned into (line 685)
Wrapped == "Video rendering failed"

\* (mutant) the cleanup placed at the end of the try block instead of in a finally
\* clause: an exception leaves render_video without it
AfterRaiseSkipsFinally == "wrapper"

\* (mutant) an except clause that swallows the exception: the job goes on to the upload
AfterRaiseResumes == "upload"

\* where control goes when the try block raises: both except clauses re-raise and the
\* finally clause runs first (lines 681-687)
AfterRaise == "finally"

Raise(j, detail) ==
    /\ outcome' = [outcome EXCEPT ![j] = detail]
    /\ pc' = [pc EXCEPT ![j] = AfterRaise]

Goto(j, where) ==
    /\ pc' = [pc EXCEPT ![j] = where]
    /\ UNCHANGED outcome

\* a worker thread of the pool takes the next work item and calls
\* render_single_video_safe, which calls render_video (lines 262-269)
StartJob(j) ==
    /\ pc[j] = "queued"
    /\ queue # <<>>
    /\ j = Head(queue)
    /\ Cardinality(Running) < max_workers
    /\ queue' = Tail(queue)
    /\ Goto(j, "mkdtemp")
    /\ UNCHANGED <<fsVars, tlVars, chVars, geoVars, batchVars, finishedOrder, tempDir, audioBody, bgBody, fetched, attempts,
                   ffmpeg, writeSuccess, outBytes, uploads, uploadOk, cleanups, future>>

\* temp_dir = tempfile.mkdtemp() (line 272); it raises when the directory cannot be made
MkTemp(j) ==
    /\ pc[j] = "mkdtemp"
    /\ \E ok \in BOOLEAN :
         IF ok
         THEN /\ tempDir' = [tempDir EXCEPT ![j] = "exists"]
              /\ Goto(j, "download_audio")
         ELSE /\ Raise(j, Wrapped)
              /\ UNCHANGED tempDir
    /\ UNCHANGED <<fsVars, tlVars, chVars, geoVars, batchVars, poolVars, audioBody, bgBody, fetched, attempts,
                   ffmpeg, writeSuccess, outBytes, uploads, uploadOk, cleanups, future>>

\* download_file(narration_url, ...): requests.get, raise_for_status, the body written
\* to disk whatever its size; any exception is re-raised (lines 107-126, 291)
DownloadAudio(j) ==
    /\ pc[j] = "download_audio"
    /\ fetched' = [fetched EXCEPT ![j] = @ \cup {"audio"}]
    /\ \E r \in BodySizes \cup {-1} :
         IF r = -1
         THEN /\ Raise(j, Wrapped)
              /\ UNCHANGED audioBody
         ELSE /\ audioBody' = [audioBody EXCEPT ![j] = r]
              /\ Goto(j, "verify_audio")
    /\ UNCHANGED <<fsVars, tlVars, chVars, geoVars, batchVars, poolVars, tempDir, bgBody, attempts,
                   ffmpeg, writeSuccess, outBytes, uploads, uploadOk, cleanups, future>>

\* if not os.path.exists(audio_path) or os.path.getsize(audio_path) == 0 (lines 294-295)
VerifyAudio(j) ==
    /\ pc[j] = "verify_audio"
    /\ IF audioBody[j] = -1 \/ audioBody[j] = 0
       THEN Raise(j, "Audio file is empty or missing")
       ELSE Goto(j, "check_mood")
    /\ UNCHANGED <<fsVars, tlVars, chVars, geoVars, batchVars, poolVars, tempDir, audioBody, bgBody, fetched, attempts,
                   ffmpeg, writeSuccess, outBytes, uploads, uploadOk, cleanups, future>>

\* if data.mood.lower() not in MOOD_BACKGROUNDS (lines 298-299)
CheckMood(j) ==
    /\ pc[j] = "check_mood"
    /\ IF Lower(videos[j]) \notin MOOD_BACKGROUNDS
       THEN Raise(j, "Unknown mood")
       ELSE Goto(j, "download_background")
    /\ UNCHANGED <<fsVars, tlVars, chVars, geoVars, batchVars, poolVars, tempDir, audioBody, bgBody, fetched, attempts,
                   ffmpeg, writeSuccess, outBytes, uploads, uploadOk, cleanups, future>>

\* background_path = download_file(background_url, ...) (lines 301-302)
DownloadBackground(j) ==
    /\ pc[j] = "download_background"
    /\ fetched' = [fetched EXCEPT ![j] = @ \cup {"background"}]
    /\ \E r \in BodySizes \cup {-1} :
         IF r = -1
         THEN /\ Raise(j, Wrapped)
              /\ UNCHANGED bgBody
         ELSE /\ bgBody' = [bgBody EXCEPT ![j] = r]
              /\ Goto(j, "verify_background")
    /\ UNCHANGED <<fsVars, tlVars, chVars, geoVars, batchVars, poolVars, tempDir, audioBody, attempts,
                   ffmpeg, writeSuccess, outBytes, uploads, uploadOk, cleanups, future>>

\* lines 305-306
VerifyBackground(j) ==
    /\ pc[j] = "verify_background"
    /\ IF bgBody[j] = -1 \/ bgBody[j] = 0
       THEN Raise(j, "Background video is empty or missing")
       ELSE Goto(j, "normalize")
    /\ UNCHANGED <<fsVars, tlVars, chVars, geoVars, batchVars, poolVars, tempDir, audioBody, bgBody, fetched, attempts,
                   ffmpeg, writeSuccess, outBytes, uploads, uploadOk, cleanups, future>>

\* VideoFileClip(background_path), resize/crop to the target frame, subclip (lines
\* 312-372): the file may not decode, and the arithmetic may raise
Normalize(j) ==
    /\ pc[j] = "normalize"
    /\ \E ok \in BOOLEAN :
         IF ok /\ Decodable(bgBody[j]) THEN Goto(j, "load_audio") ELSE Raise(j, Wrapped)
    /\ UNCHANGED <<fsVars, tlVars, chVars, geoVars, batchVars, poolVars, tempDir, audioBody, bgBody, fetched, attempts,
                   ffmpeg, writeSuccess, outBytes, uploads, uploadOk, cleanups, future>>

\* AudioFileClip(audio_path) and the trim of the background (lines 375-382): the
\* narration bytes may not decode
LoadAudio(j) ==
    /\ pc[j] = "load_audio"
    /\ \E ok \in BOOLEAN :
         IF ok /\ Decodable(audioBody[j]) THEN Goto(j, "compose") ELSE Raise(j, Wrapped)
    /\ UNCHANGED <<fsVars, tlVars, chVars, geoVars, batchVars, poolVars, tempDir, audioBody, bgBody, fetched, attempts,
                   ffmpeg, writeSuccess, outBytes, uploads, uploadOk, cleanups, future>>

\* the overlays, the validation of the clips and CompositeVideoClip (lines 385-628):
\* "no_valid_clips" is the HTTPException of line 608, "error" any other exception
Compose(j) ==
    /\ pc[j] = "compose"
    /\ \E r \in {"ok", "no_valid_clips", "error"} :
         CASE r = "ok" -> Goto(j, "method1")
           [] r = "no_valid_clips" -> Raise(j, "No valid clips to compose video")
           [] OTHER -> Raise(j, Wrapped)
    /\ UNCHANGED <<fsVars, tlVars, chVars, geoVars, batchVars, poolVars, tempDir, audioBody, bgBody, fetched, attempts,
                   ffmpeg, writeSuccess, outBytes, uploads, uploadOk, cleanups, future>>

\* ------------------------------------------------------------ write_video_robust

SetLast(seq, ended) == [seq EXCEPT ![Len(seq)].ended = ended]

\* (mutant) the encoder gives up after the first method that raises
FallThroughGivesUp(n) == "return_false"

\* where write_video_robust goes when method n raised: the except clause logs and
\* control falls through to the next method, after the last to "return False"
\* (lines 193-197, 213-217, 255-258)
FallThrough(n) ==
    CASE n = 1 -> "method2"
      [] n = 2 -> "method3"
      [] OTHER -> "return_false"

\* Method 1 and Method 2: video_clip.write_videofile(output_path, ...) and, when it
\* does not raise, return True (lines 173-194 and 197-214)
WriteVideofile(j, n) ==
    /\ \E ok \in BOOLEAN :
         IF ok
         THEN /\ attempts' = [attempts EXCEPT ![j] = Append(@, [strategy |-> n, ended |-> "ok"])]
              /\ writeSuccess' = [writeSuccess EXCEPT ![j] = "True"]
              /\ \E size \in OutputSizes : outBytes' = [outBytes EXCEPT ![j] = size]
              /\ Goto(j, "after_encode")
         ELSE /\ attempts' = [attempts EXCEPT ![j] = Append(@, [strategy |-> n, ended |-> "failed"])]
              /\ Goto(j, FallThrough(n))
              /\ UNCHANGED <<writeSuccess, outBytes>>
    /\ UNCHANGED <<fsVars, tlVars, chVars, geoVars, batchVars, poolVars, tempDir, audioBody, bgBody, fetched,
                   ffmpeg, uploads, uploadOk, cleanups, future>>

Method1(j) ==
    /\ pc[j] = "method1"
    /\ WriteVideofile(j, 1)

Method2(j) ==
    /\ pc[j] = "method2"
    /\ WriteVideofile(j, 2)

\* Method 3, first half: the video without audio and the audio are written as two
\* files (lines 217-234); an exception goes to the except clause of line 255
Method3(j) ==
    /\ pc[j] = "method3"
    /\ \E ok \in BOOLEAN :
         IF ok
         THEN /\ attempts' = [attempts EXCEPT ![j] = Append(@, [strategy |-> 3, ended |-> "running"])]
              /\ Goto(j, "ffmpeg")
         ELSE /\ attempts' = [attempts EXCEPT ![j] = Append(@, [strategy |-> 3, ended |-> "failed"])]
              /\ Goto(j, FallThrough(3))
    /\ UNCHANGED <<fsVars, tlVars, chVars, geoVars, batchVars, poolVars, tempDir, audioBody, bgBody, fetched,
                   ffmpeg, writeSuccess, outBytes, uploads, uploadOk, cleanups, future>>

\* what subprocess.run(cmd, capture_output=True, text=True, timeout=300) can give:
\* TimeoutExpired, or an exit code with a stderr that shows an audio stream or none
FfmpegRuns ==
    {[status |-> "timeout", rc |-> 0, audio |-> FALSE],
     [status |-> "exit", rc |-> 1, audio |-> FALSE],
     [status |-> "exit", rc |-> 0, audio |-> FALSE],
     [status |-> "exit", rc |-> 0, audio |-> TRUE]}

\* the test that decides whether the ffmpeg run made the video: result.returncode == 0
\* (line 249)
FfmpegSucceeded(r) == r.status = "exit" /\ r.rc = 0

\* Method 3, second half: the ffmpeg command that muxes the two files (lines 236-256)
Ffmpeg(j) ==
    /\ pc[j] = "ffmpeg"
    /\ \E r \in FfmpegRuns :
         /\ ffmpeg' = [ffmpeg EXCEPT ![j] = r]
         /\ IF FfmpegSucceeded(r)
            THEN /\ attempts' = [attempts EXCEPT ![j] = SetLast(@, "ok")]
                 /\ writeSuccess' = [writeSuccess EXCEPT ![j] = "True"]
                 /\ \E size \in OutputSizes : outBytes' = [outBytes EXCEPT ![j] = size]
                 /\ Goto(j, "after_encode")
            ELSE /\ attempts' = [attempts EXCEPT ![j] = SetLast(@, "failed")]
                 /\ Goto(j, FallThrough(3))
                 /\ UNCHANGED <<writeSuccess, outBytes>>
    /\ UNCHANGED <<fsVars, tlVars, chVars, geoVars, batchVars, poolVars, tempDir, audioBody, bgBody, fetched,
                   uploads, uploadOk, cleanups, future>>

\* return False (line 258)
ReturnFalse(j) ==
    /\ pc[j] = "return_false"
    /\ writeSuccess' = [writeSuccess EXCEPT ![j] = "False"]
    /\ Goto(j, "after_encode")
    /\ UNCHANGED <<fsVars, tlVars, chVars, geoVars, batchVars, poolVars, tempDir, audioBody, bgBody, fetched, attempts,
                   ffmpeg, outBytes, uploads, uploadOk, cleanups, future>>

\* ------------------------------------------------- render_video, after the encoder

\* final_video.close() and "if not write_success: raise" (lines 634-645)
AfterEncode(j) ==
    /\ pc[j] = "after_encode"
    /\ IF writeSuccess[j] # "True"
       THEN Raise(j, "Failed to write video with all methods")
       ELSE Goto(j, "verify_output")
    /\ UNCHANGED <<fsVars, tlVars, chVars, geoVars, batchVars, poolVars, tempDir, audioBody, bgBody, fetched, attempts,
                   ffmpeg, writeSuccess, outBytes, uploads, uploadOk, cleanups, future>>

\* (mutant) the output taken for good without looking at it
OutputExistsUnchecked(j) == TRUE

\* the file at output_path is there and not empty
OutputExists(j) == tempDir[j] = "exists" /\ outBytes[j] > 0

\* if not os.path.exists(output_path) or os.path.getsize(output_path) == 0 (lines 648-649)
VerifyOutput(j) ==
    /\ pc[j] = "verify_output"
    /\ IF ~OutputExists(j)
       THEN Raise(j, "Video rendering failed - output file is empty")
       ELSE Goto(j, "upload")
    /\ UNCHANGED <<fsVars, tlVars, chVars, geoVars, batchVars, poolVars, tempDir, audioBody, bgBody, fetched, attempts,
                   ffmpeg, writeSuccess, outBytes, uploads, uploadOk, cleanups, future>>

\* (mutant) a failed upload leaves the try block as an exception would
AfterUploadFailureRaises(ok) == IF ok THEN "return" ELSE "finally"

\* where render_video goes with upload_success: both branches of lines 659-662 only
\* choose the message, and the result is returned
AfterUpload(ok) == "return"

\* the dict render_video returns for job j (lines 673-679): dropbox_path is
\* "dropbox_path if upload_success else None"
Result(j) ==
    [video_path |-> "output_path",
     dropbox_path |-> IF uploadOk[j] THEN "dropbox_path" ELSE "None",
     message |-> IF uploadOk[j]
                 THEN "Video rendered and uploaded to Dropbox successfully"
                 ELSE "Video rendered successfully, but upload to Dropbox failed"]

\* upload_success = upload_to_dropbox(output_path, dropbox_path): it returns False on
\* every failure and never raises (lines 128-167, 653-662)
Upload(j) ==
    /\ pc[j] = "upload"
    /\ uploads' = [uploads EXCEPT ![j] = @ + 1]
    /\ \E ok \in BOOLEAN :
         /\ uploadOk' = [uploadOk EXCEPT ![j] = ok]
         /\ Goto(j, AfterUpload(ok))
    /\ UNCHANGED <<fsVars, tlVars, chVars, geoVars, batchVars, poolVars, tempDir, audioBody, bgBody, fetched, attempts,
                   ffmpeg, writeSuccess, outBytes, cleanups, future>>

\* the return statement of the try block: the result is built, the finally clause
\* runs before the caller gets it (lines 664-679)
ReturnResult(j) ==
    /\ pc[j] = "return"
    /\ outcome' = [outcome EXCEPT ![j] = "ok"]
    /\ pc' = [pc EXCEPT ![j] = "finally"]
    /\ UNCHANGED <<fsVars, tlVars, chVars, geoVars, batchVars, poolVars, tempDir, audioBody, bgBody, fetched, attempts,
                   ffmpeg, writeSuccess, outBytes, uploads, uploadOk, cleanups, future>>

\* the finally clause: if temp_dir and os.path.exists(temp_dir): shutil.rmtree(temp_dir),
\* whose failure is logged and swallowed (lines 687-694)
Cleanup(j) ==
    /\ pc[j] = "finally"
    /\ IF tempDir[j] = "exists"
       THEN /\ cleanups' = [cleanups EXCEPT ![j] = @ + 1]
            /\ \E removed \in BOOLEAN :
                 tempDir' = [tempDir EXCEPT ![j] = IF removed THEN "removed" ELSE "exists"]
       ELSE UNCHANGED <<cleanups, tempDir>>
    /\ Goto(j, "wrapper")
    /\ UNCHANGED <<fsVars, tlVars, chVars, geoVars, batchVars, poolVars, audioBody, bgBody, fetched, attempts,
                   ffmpeg, writeSuccess, outBytes, uploads, uploadOk, future>>

\* ------------------------------------------------------ render_single_video_safe

\* (mutant) a wrapper without the except clause: the job's exception reaches the future
SafeOutcomeNoCatch(o) ==
    IF o = "ok"
    THEN [kind |-> "result", success |-> TRUE, error |-> "none"]
    ELSE [kind |-> "exception", success |-> FALSE, error |-> o]

\* what the wrapper hands to the future: render_video's result as a success, any
\* Exception as a failure dict (lines 696-714)
SafeOutcome(o) ==
    IF o = "ok"
    THEN [kind |-> "result", success |-> TRUE, error |-> "none"]
    ELSE [kind |-> "result", success |-> FALSE, error |-> o]

\* the wrapper returns and the worker sets the future, which as_completed sees
SafeReturn(j) ==
    /\ pc[j] = "wrapper"
    /\ future' = [future EXCEPT ![j] = SafeOutcome(outcome[j])]
    /\ finishedOrder' = Append(finishedOrder, j)
    /\ Goto(j, "returned")
    /\ UNCHANGED <<fsVars, tlVars, chVars, geoVars, batchVars, queue, tempDir, audioBody, bgBody, fetched, attempts,
                   ffmpeg, writeSuccess, outBytes, uploads, uploadOk, cleanups>>

JobStep(j) ==
    \/ StartJob(j)
    \/ MkTemp(j)
    \/ DownloadAudio(j)
    \/ VerifyAudio(j)
    \/ CheckMood(j)
    \/ DownloadBackground(j)
    \/ VerifyBackground(j)
    \/ Normalize(j)
    \/ LoadAudio(j)
    \/ Compose(j)
    \/ Method1(j)
    \/ Method2(j)
    \/ Method3(j)
    \/ Ffmpeg(j)
    \/ ReturnFalse(j)
    \/ AfterEncode(j)
    \/ VerifyOutput(j)
    \/ Upload(j)
    \/ ReturnResult(j)
    \/ Cleanup(j)
    \/ SafeReturn(j)

\* ------------------------------------------------------------ render_batch_videos

\* max_workers = min(...) (line 723)
ComputeWorkers ==
    /\ bpc = "start"
    /\ max_workers' = MaxWorkers(max_concurrent, nVideos)
    /\ bpc' = "create_pool"
    /\ UNCHANGED <<fsVars, tlVars, chVars, geoVars, videos, max_concurrent, submitted, snapshot, results,
                   successful_renders, failed_renders, summary, poolVars, jobVars>>

\* ThreadPoolExecutor(max_workers=max_workers) raises ValueError when max_workers <= 0,
\* and the batch call ends with it (line 730)
CreatePool ==
    /\ bpc = "create_pool"
    /\ bpc' = IF max_workers <= 0 THEN "crashed" ELSE "submit"
    /\ UNCHANGED <<fsVars, tlVars, chVars, geoVars, videos, max_concurrent, max_workers, submitted, snapshot, results,
                   successful_renders, failed_renders, summary, poolVars, jobVars>>

\* executor.submit(render_single_video_safe, video), for the videos in order
\* (lines 732-735)
Submit ==
    /\ bpc = "submit"
    /\ submitted < nVideos
    /\ submitted' = submitted + 1
    /\ queue' = Append(queue, submitted + 1)
    /\ pc' = [pc EXCEPT ![submitted + 1] = "queued"]
    /\ UNCHANGED <<fsVars, tlVars, chVars, geoVars, videos, max_concurrent, bpc, max_workers, snapshot, results,
                   successful_renders, failed_renders, summary, finishedOrder,
                   tempDir, audioBody, bgBody, fetched, attempts, ffmpeg, writeSuccess,
                   outBytes, uploads, uploadOk, cleanups, outcome, future>>

\* the for statement of line 738 starts as_completed, which first takes the futures
\* that are finished already: it yields those first, in no particular order
BeginCollect ==
    /\ bpc = "submit"
    /\ submitted = nVideos
    /\ snapshot' = {j \in Submitted : future[j].kind # "pending"}
    /\ bpc' = "collect"
    /\ UNCHANGED <<fsVars, tlVars, chVars, geoVars, videos, max_concurrent, max_workers, submitted, results,
                   successful_renders, failed_renders, summary, poolVars, jobVars>>

Collected == {results[i].job : i \in 1..Len(results)}

\* the first job of seq that is not in done, as a set (empty when there is none)
FirstNotIn(seq, done) ==
    {seq[i] : i \in {k \in 1..Len(seq) :
                        /\ seq[k] \notin done
                        /\ \A m \in 1..(k - 1) : seq[m] \in done}}

\* (mutant) the results taken in submission order: the lowest-numbered finished job
\* that was not collected yet
YieldableInSubmissionOrder ==
    {j \in Submitted \ Collected :
        /\ future[j].kind # "pending"
        /\ \A i \in Submitted \ Collected : future[i].kind # "pending" => j <= i}

\* the futures as_completed may yield next: one of those finished before it started,
\* then the others as they finish
Yieldable ==
    IF snapshot \ Collected # {}
    THEN snapshot \ Collected
    ELSE FirstNotIn(finishedOrder, Collected)

\* one round of the loop: result = future.result(), which raises what the job raised,
\* results.append(result), and the counters (lines 738-747)
Collect ==
    /\ bpc = "collect"
    /\ \E j \in Yieldable :
         IF future[j].kind = "exception"
         THEN /\ bpc' = "crashed"
              /\ UNCHANGED <<results, successful_renders, failed_renders>>
         ELSE /\ results' = Append(results, [job |-> j, success |-> future[j].success])
              /\ successful_renders' =
                    IF future[j].success THEN successful_renders + 1 ELSE successful_renders
              /\ failed_renders' =
                    IF future[j].success THEN failed_renders ELSE failed_renders + 1
              /\ UNCHANGED bpc
    /\ UNCHANGED <<fsVars, tlVars, chVars, geoVars, videos, max_concurrent, max_workers, submitted, snapshot, summary,
                   poolVars, jobVars>>

\* as_completed is exhausted, the executor is shut down and the summary returned
\* (lines 749-765)
Summarize ==
    /\ bpc = "collect"
    /\ Collected = Submitted
    /\ summary' = [made |-> TRUE,
                   total_videos |-> nVideos,
                   successful_renders |-> successful_renders,
                   failed_renders |-> failed_renders,
                   results |-> results]
    /\ bpc' = "done"
    /\ UNCHANGED <<fsVars, tlVars, chVars, geoVars, videos, max_concurrent, max_workers, submitted, snapshot, results,
                   successful_renders, failed_renders, poolVars, jobVars>>

Next ==
    \/ ComputeWorkers
    \/ CreatePool
    \/ Submit
    \/ BeginCollect
    \/ Collect
    \/ Summarize
    \/ \E j \in Jobs : JobStep(j)

Spec == Init /\ [][Next]_vars

\* ---------------------------------------------------------------- the claims

Terminated(j) == pc[j] \in {"wrapper", "returned"}

\* C1: for one render job, whichever stage after the creation of its temporary
\* directory fails, or if the job succeeds, shutil.rmtree of that directory is called
\* exactly once, and only after the job's outcome (success or the error) is fixed:
\* never twice, and never zero times for a job that got a directory.
CleanupExactlyOnce ==
    \A j \in Jobs :
        /\ cleanups[j] <= 1
        /\ (cleanups[j] = 1 => outcome[j] # "none")
        /\ (Terminated(j) => outcome[j] # "none")
        /\ (Terminated(j) /\ tempDir[j] # "none" => cleanups[j] = 1)

\* a job that failed in the encoder and a job that succeeded, both cleaned up once
CleanupWitness ==
    \E i, j \in Jobs :
        /\ pc[i] = "returned" /\ pc[j] = "returned"
        /\ outcome[i] = "Failed to write video with all methods"
        /\ outcome[j] = "ok"
        /\ cleanups[i] = 1 /\ cleanups[j] = 1

FailureIsolated ==
    /\ \A j \in Jobs :
          pc[j] = "returned" =>
              /\ future[j].kind = "result"
              /\ (future[j].success <=> outcome[j] = "ok")
    /\ (bpc = "crashed" => \A j \in Jobs : pc[j] = "absent")
    /\ \A j \in Jobs : pc[j] \in RunningPcs => ENABLED JobStep(j)
    /\ \A j \in Jobs :
          (pc[j] = "queued" /\ queue # <<>> /\ Head(queue) = j /\ Running = {})
              => ENABLED StartJob(j)
    /\ (bpc = "done" =>
            \A j \in Submitted :
                /\ pc[j] = "returned"
                /\ Cardinality({i \in 1..Len(results) : results[i].job = j}) = 1)

\* the batch is done, the job that finished first failed and its sibling succeeded
FailureIsolatedWitness ==
    /\ bpc = "done"
    /\ nVideos = 2
    /\ ~future[finishedOrder[1]].success
    /\ future[finishedOrder[2]].success

\* C4 (as claimed): a job rejected for an unknown mood has issued no download
UnknownMoodBeforeAnyFetch ==
    \A j \in Jobs : outcome[j] = "Unknown mood" => fetched[j] = {}

\* C5: the strategies are tried in the order 1, 2, 3; a strategy is tried only if all
\* earlier ones failed, so none is tried after a success; write_video_robust returns
\* False only after all three were tried and failed, and True only when the last one
\* tried succeeded.
LadderOrder ==
    \A j \in Jobs :
        LET a == attempts[j] IN
        /\ Len(a) <= 3
        /\ \A i \in 1..Len(a) : a[i].strategy = i
        /\ \A i \in 1..(Len(a) - 1) : a[i].ended = "failed"
        /\ (writeSuccess[j] = "False" =>
                Len(a) = 3 /\ \A i \in 1..3 : a[i].ended = "failed")
        /\ (writeSuccess[j] = "True" => Len(a) >= 1 /\ a[Len(a)].ended = "ok")

\* the encoder reported failure, after three failed attempts
LadderExhaustedWitness ==
    \E j \in Jobs : writeSuccess[j] = "False" /\ Len(attempts[j]) = 3

\* C6 (as claimed): when methods 1 and 2 failed and ffmpeg exits with code zero
\* while its output shows no audio stream, the job's result is a failure
ZeroExitAloneNeverSucceeds ==
    \A j \in Jobs :
        ( /\ pc[j] = "returned"
          /\ Len(attempts[j]) = 3
          /\ ffmpeg[j].status = "exit" /\ ffmpeg[j].rc = 0 /\ ~ffmpeg[j].audio )
            => ~future[j].success

\* C7 (as claimed): when a result reports success to the caller, the file at the
\* returned output path is there and not empty
SuccessHasOutputFile ==
    \A j \in Jobs : (pc[j] = "returned" /\ future[j].success) => OutputExists(j)

\* C9 (as claimed): a narration body of a few bytes fails the job before the
\* background is requested and before any encoder strategy
TinyNarrationStopsAtFetch ==
    \A j \in Jobs :
        audioBody[j] = TinyBody => ("background" \notin fetched[j] /\ attempts[j] = <<>>)

PosIn(seq, x) == CHOOSE i \in 1..Len(seq) : seq[i] = x

BatchStep ==
    \/ ComputeWorkers
    \/ CreatePool
    \/ Submit
    \/ BeginCollect
    \/ Collect
    \/ Summarize

SpecFair ==
    /\ Init
    /\ [][Next]_vars
    /\ WF_vars(BatchStep)
    /\ \A j \in Jobs : WF_vars(JobStep(j))

\* the batch call returned its summary and every submitted job has a result in it
BatchReturned ==
    /\ bpc = "done"
    /\ summary.made
    /\ \A j \in Submitted :
          /\ pc[j] = "returned"
          /\ \E i \in 1..Len(summary.results) : summary.results[i].job = j

\* a job whose download raised (a timeout of requests.get among the causes) or whose
\* ffmpeg run ended in TimeoutExpired without an earlier method having succeeded
TimedOut(j) ==
    \/ /\ outcome[j] = Wrapped
       /\ attempts[j] = <<>>
       /\ fetched[j] # {}
       /\ (audioBody[j] = -1 \/ ("background" \in fetched[j] /\ bgBody[j] = -1))
    \/ ffmpeg[j].status = "timeout"

\* C11 (as claimed): a batch run always ends with the summary, in which every
\* submitted job succeeded or failed: until then some step can be taken, the batch
\* call never ends without a summary, and a job that timed out in a download or in
\* the ffmpeg run has a failed result in its future and not an exception.
BatchAlwaysReturnsSummary ==
    /\ (BatchReturned \/ ENABLED Next)
    /\ bpc # "crashed"
    /\ \A j \in Jobs :
          (pc[j] = "returned" /\ TimedOut(j)) =>
              (future[j].kind = "result" /\ ~future[j].success)

\* the part of C11 that holds: once the pool exists the batch call returns its summary
PoolMadeLeadsToSummary == (bpc = "submit") ~> BatchReturned

\* the stage of the single-job state machine a job is in, from where render_video is
\* and how it ended
Stage(p, o) ==
    CASE p \in {"absent", "queued", "mkdtemp"} -> "Created"
      [] p \in {"download_audio", "check_mood", "download_background"} -> "Fetching"
      [] p \in {"verify_audio", "verify_background"} -> "Verifying"
      [] p \in {"normalize", "load_audio"} -> "Normalizing"
      [] p = "compose" -> "Composing"
      [] p \in EncodingPcs \cup {"return_false", "after_encode", "verify_output"} -> "Encoding"
      [] p \in {"upload", "return"} -> "Succeeded"
      [] p = "finally" -> IF o = "ok" THEN "Succeeded" ELSE "Failed"
      [] OTHER -> "CleanedUp"

\* the place of a stage in the order of the state machine
StageRank(s) ==
    CASE s = "Created" -> 0
      [] s = "Fetching" -> 1
      [] s = "Verifying" -> 2
      [] s = "Normalizing" -> 3
      [] s = "Composing" -> 4
      [] s = "Encoding" -> 5
      [] s \in {"Succeeded", "Failed"} -> 6
      [] OTHER -> 7

\* the same order with the stages of the two assets told apart: the narration is
\* fetched and verified, then the background is fetched and verified
AssetRank(p, o) ==
    CASE p = "download_audio" -> 1
      [] p = "verify_audio" -> 2
      [] p \in {"check_mood", "download_background"} -> 3
      [] p = "verify_background" -> 4
      [] OTHER -> IF StageRank(Stage(p, o)) = 0 THEN 0 ELSE StageRank(Stage(p, o)) + 2

HasFailed(j) == outcome[j] \notin {"none", "ok"}

\* a step of job j that raises
FailStep(j) == JobStep(j) /\ outcome'[j] \notin {"none", "ok"}

\* C18 (amended): a job goes through Created, Fetching and Verifying of the narration,
\* Fetching and Verifying of the background, Normalizing, Composing, Encoding, then
\* Succeeded or Failed, then CleanedUp: a step stays in its stage, enters the next one
\* or enters Failed, and never goes back; the encoder is entered only with both assets
\* downloaded and found non-empty; in every stage before the end a step into Failed is
\* possible (always in Created, Fetching, Normalizing and Composing, on an empty file in
\* Verifying, on an encoder that reported failure or left no file in Encoding); and
\* once a job has failed only the cleanup and the return of its result run.
StagesInOrder ==
    [][\A j \in Jobs :
          LET before == AssetRank(pc[j], outcome[j])
              after == AssetRank(pc'[j], outcome'[j])
          IN /\ after >= before
             /\ (after > before => (after = before + 1 \/ Stage(pc'[j], outcome'[j]) = "Failed"))
             /\ (pc[j] \in EncodingPcs =>
                    /\ fetched[j] = {"audio", "background"}
                    /\ audioBody[j] > 0 /\ bgBody[j] > 0)
             /\ (pc[j] \in {"mkdtemp", "download_audio", "download_background", "normalize",
                            "load_audio", "compose"} => ENABLED FailStep(j))
             /\ ((pc[j] = "verify_audio" /\ audioBody[j] = 0) => ENABLED FailStep(j))
             /\ ((pc[j] = "verify_background" /\ bgBody[j] = 0) => ENABLED FailStep(j))
             /\ ((pc[j] = "after_encode" /\ writeSuccess[j] = "False") => ENABLED FailStep(j))
             /\ ((pc[j] = "verify_output" /\ ~OutputExists(j)) => ENABLED FailStep(j))
             /\ (HasFailed(j) => pc[j] \in {"finally", "wrapper", "returned"})
             /\ (HasFailed(j) => (HasFailed(j))' /\ pc'[j] \in {"finally", "wrapper", "returned"})
    ]_vars

\* a job that failed in the encoder, after both assets were verified, and was cleaned up
StagesWitness ==
    \E j \in Jobs :
        /\ pc[j] = "returned"
        /\ outcome[j] = "Failed to write video with all methods"
        /\ fetched[j] = {"audio", "background"}
        /\ cleanups[j] = 1

\* C18 (as claimed): the stages are visited in the order Created, Fetching, Verifying,
\* Normalizing, Composing, Encoding, Succeeded or Failed, CleanedUp, and a job never
\* returns to an earlier stage
StagesNeverGoBack ==
    [][\A j \in Jobs :
          StageRank(Stage(pc'[j], outcome'[j])) >= StageRank(Stage(pc[j], outcome[j]))]_vars

\* ------------------------------------ the timing of a composition (render_video)

\* bound of the model: the most chunks a body gives (the code keeps at most 25)
MaxChunks == 3

\* the clock of the model: 0.05 s, the factor of line 471, is one tick
TicksPerSecond == 20
\* min(45, background_video.duration) (line 371), in seconds
MaxDurationSec == 45
\* the title stays min(10, audio_duration) (lines 422 and 430), in seconds
TitleSec == 10
\* min(2.0, audio_duration * 0.05) (line 471), in seconds
MaxDelaySec == 2
\* subtitle_end_buffer = 1.0 (line 472), in seconds
EndBufferSec == 1
\* max(..., 5) (line 473), in seconds
MinSubtitleSec == 5
\* max(base_chunk_duration, 1.5) (line 478), in ticks: 1.5 s
MinChunkTicks == 30

\* the durations, in seconds, the model loads: shorter than every floor of the timing,
\* between them, at the cap and beyond it
DurationsSec == {3, 8, 20, 30, 45, 60}

\* how the title can come out: with its shadow, plain after the shadow failed
\* (line 430), or not at all (line 434)
TitleOutcomes == {"bubbly", "simple", "skipped"}

\* how one chunk can come out: at the primary style, at the simpler style after the
\* primary failed (lines 511-527), dropped after both failed (line 531), as the plain
\* clip of the chunk's except clause (lines 544-557), or dropped there too (line 560)
ChunkOutcomes == {"primary", "fallback", "dropped", "simple", "simple_failed"}

InitTimeline ==
    /\ tpc = "trim"
    /\ bgSec \in DurationsSec
    /\ audioSec \in DurationsSec
    /\ nChunks \in 0..MaxChunks
    /\ audio_duration = 0
    /\ subtitle_start_delay = 0
    /\ chunkNum = 0
    /\ chunkIdx = 0
    /\ clips = <<>>
    /\ bg_duration = 0
    /\ chunkLog = <<>>
    /\ valid_clips = NoValidClips
    /\ final_video = NoFinalVideo
    \* the chunks are given by their number, no body is chunked
    /\ ChIdle
    /\ GeoIdle
    /\ FsIdle
    \* no batch is running
    /\ JobsIdle

Max2(a, b) == IF a >= b THEN a ELSE b

\* max_duration = min(45, background_video.duration); the background is cut to it;
\* audio_duration = min(audio_clip.duration, background_video.duration) (lines 370-382)
AudioDuration(audio, bg) ==
    LET max_duration == Min2(MaxDurationSec * TicksPerSecond, bg * TicksPerSecond)
    IN Min2(audio * TicksPerSecond, max_duration)

\* (mutant) the background left at max_duration, without the cut of lines 381-382
BackgroundDurationUncut(audio, bg) ==
    Min2(MaxDurationSec * TicksPerSecond, bg * TicksPerSecond)

\* background_video.duration after subclip(0, max_duration) (line 372) and, when it is
\* longer than audio_duration, subclip(0, audio_duration) (lines 381-382)
BackgroundDuration(audio, bg) ==
    LET max_duration == Min2(MaxDurationSec * TicksPerSecond, bg * TicksPerSecond)
        d == AudioDuration(audio, bg)
    IN IF max_duration > d THEN d ELSE max_duration

TlTrim ==
    /\ tpc = "trim"
    /\ audio_duration' = AudioDuration(audioSec, bgSec)
    /\ bg_duration' = BackgroundDuration(audioSec, bgSec)
    /\ tpc' = "title"
    /\ UNCHANGED <<bgSec, audioSec, nChunks, subtitle_start_delay, chunkNum, chunkIdx, clips,
                   chunkLog, valid_clips, final_video>>
    /\ UNCHANGED <<batchVars, poolVars, jobVars, chVars, geoVars, fsVars>>

\* an overlay clip: it starts at start / den ticks and lasts dur / den ticks
Clip(kind, tier, start, dur, den) ==
    [kind |-> kind, tier |-> tier, start |-> start, dur |-> dur, den |-> den]

\* set_duration(min(10, audio_duration)) on a clip that starts at 0 (lines 419-431)
TitleClip(tier) ==
    Clip("title", tier, 0, Min2(TitleSec * TicksPerSecond, audio_duration), 1)

TlTitle ==
    /\ tpc = "title"
    /\ \E o \in TitleOutcomes :
         clips' = IF o = "skipped" THEN clips ELSE Append(clips, TitleClip(o))
    /\ tpc' = "timing"
    /\ UNCHANGED <<bgSec, audioSec, nChunks, audio_duration, subtitle_start_delay,
                   chunkNum, chunkIdx, bg_duration, chunkLog, valid_clips, final_video>>
    /\ UNCHANGED <<batchVars, poolVars, jobVars, chVars, geoVars, fsVars>>

\* subtitle_start_delay = min(2.0, audio_duration * 0.05): a twentieth of a duration
\* of d ticks is d / 20 ticks, and d is a whole number of seconds
StartDelay(d) == Min2(MaxDelaySec * TicksPerSecond, d \div TicksPerSecond)

\* subtitle_duration = max(audio_duration - subtitle_start_delay - subtitle_end_buffer, 5)
SubtitleDuration(d) ==
    Max2(d - StartDelay(d) - EndBufferSec * TicksPerSecond, MinSubtitleSec * TicksPerSecond)

\* chunk_duration = max(base_chunk_duration, 1.5), with base_chunk_duration =
\* subtitle_duration / len(chunks) if chunks else audio_duration: the numerator of
\* chunk_duration over ChunkDen(n)
ChunkDen(n) == IF n > 0 THEN n ELSE 1
ChunkNum(d, n) ==
    IF n > 0
    THEN Max2(SubtitleDuration(d), MinChunkTicks * n)
    ELSE Max2(d, MinChunkTicks)

\* lines 469-485; the chunks are made before (lines 439-467)
TlTiming ==
    /\ tpc = "timing"
    /\ cpc \in {"idle", "done"}
    /\ subtitle_start_delay' = StartDelay(audio_duration)
    /\ chunkNum' = ChunkNum(audio_duration, nChunks)
    /\ chunkIdx' = 0
    /\ tpc' = "chunks"
    /\ UNCHANGED <<bgSec, audioSec, nChunks, audio_duration, clips, bg_duration, chunkLog,
                   valid_clips, final_video>>
    /\ UNCHANGED <<batchVars, poolVars, jobVars, chVars, geoVars, fsVars>>

\* (mutant) the captions timed from the last chunk back to the first
CaptionClipBackwards(i, o) ==
    LET den == 5 * ChunkDen(nChunks)
        start == subtitle_start_delay * den + 5 * (nChunks - 1 - i) * chunkNum
    IN Clip("caption", o, start, IF o = "simple" THEN 5 * chunkNum ELSE 6 * chunkNum, den)

\* the clip of chunk i: start_time = subtitle_start_delay + i * chunk_duration and
\* set_duration(chunk_duration * 1.2) (lines 489, 536-538), over the denominator
\* 5 * len(chunks); the plain clip of the except clause lasts chunk_duration (line 554)
CaptionClip(i, o) ==
    LET den == 5 * ChunkDen(nChunks)
        start == subtitle_start_delay * den + 5 * i * chunkNum
    IN Clip("caption", o, start, IF o = "simple" THEN 5 * chunkNum ELSE 6 * chunkNum, den)

\* (mutant) the chunk whose two renderings failed handed on to the except clause of
\* line 544, as a raise in place of the continue would do
AfterFallbackFailsRaises == "simple"

\* what becomes of a chunk whose fallback TextClip failed too: continue (line 531)
AfterFallbackFails == "dropped"

Attempt(tier, ok) == [tier |-> tier, ok |-> ok]

\* one round of the loop for a renderer that behaves as given: whether the primary
\* TextClip works (lines 495-509), the fallback one (515-527), the positioning and
\* timing of the clip (536-540), the plain TextClip of the except clause (548-555).
\* log is the TextClip attempts in order, outcome how the chunk came out.
ChunkRun(primary, fallback, placed, simple) ==
    LET rendered == IF primary
                    THEN <<Attempt("primary", TRUE)>>
                    ELSE <<Attempt("primary", FALSE), Attempt("fallback", fallback)>>
        handled == [log |-> Append(rendered, Attempt("simple", simple)),
                    outcome |-> IF simple THEN "simple" ELSE "simple_failed"]
    IN IF ~primary /\ ~fallback
       THEN IF AfterFallbackFails = "dropped"
            THEN [log |-> rendered, outcome |-> "dropped"]
            ELSE handled
       ELSE IF placed
            THEN [log |-> rendered, outcome |-> IF primary THEN "primary" ELSE "fallback"]
            ELSE handled

\* one round of "for i, chunk in enumerate(chunks)" (lines 486-560)
TlChunk ==
    /\ tpc = "chunks"
    /\ chunkIdx < nChunks
    /\ \E primary, fallback, placed, simple \in BOOLEAN :
         LET run == ChunkRun(primary, fallback, placed, simple) IN
         /\ run.outcome \in ChunkOutcomes
         /\ clips' = IF run.outcome \in {"dropped", "simple_failed"}
                     THEN clips
                     ELSE Append(clips, CaptionClip(chunkIdx, run.outcome))
         /\ chunkLog' = run.log
    /\ chunkIdx' = chunkIdx + 1
    /\ UNCHANGED <<tpc, bgSec, audioSec, nChunks, audio_duration, subtitle_start_delay,
                   chunkNum, bg_duration, valid_clips, final_video>>
    /\ UNCHANGED <<batchVars, poolVars, jobVars, chVars, geoVars, fsVars>>

\* the loop is over (line 562)
TlComposed ==
    /\ tpc = "chunks"
    /\ chunkIdx = nChunks
    /\ tpc' = "composed"
    /\ UNCHANGED <<bgSec, audioSec, nChunks, audio_duration, subtitle_start_delay,
                   chunkNum, chunkIdx, clips, bg_duration, chunkLog, valid_clips, final_video>>
    /\ UNCHANGED <<batchVars, poolVars, jobVars, chVars, geoVars, fsVars>>

\* the validation of the clips (lines 590-610): clips[0] is the background, a clip
\* whose get_frame(0) fails is left out, and the text overlays, which come from one
\* renderer, pass or fail together; with nothing left HTTPException(500, "No valid
\* clips to compose video") is raised
TlValidate ==
    /\ tpc = "composed"
    /\ \E bgOk, textOk \in BOOLEAN :
         LET kept == IF textOk THEN clips ELSE <<>> IN
         /\ valid_clips' = [background |-> bgOk, overlays |-> kept]
         /\ tpc' = IF ~bgOk /\ kept = <<>> THEN "raised" ELSE "composite"
    /\ UNCHANGED <<bgSec, audioSec, nChunks, audio_duration, subtitle_start_delay,
                   chunkNum, chunkIdx, clips, bg_duration, chunkLog, final_video>>
    /\ UNCHANGED <<batchVars, poolVars, jobVars, chVars, geoVars, fsVars>>

SetMax(S) == CHOOSE x \in S : \A y \in S : y <= x

\* the denominator the ends of all clips are brought to
FinalDen == 5 * ChunkDen(nChunks)

\* CompositeVideoClip(valid_clips).duration: the largest end of its clips, over FinalDen
CompositeEnd(v) ==
    SetMax({(v.overlays[i].start + v.overlays[i].dur) * (FinalDen \div v.overlays[i].den) :
               i \in 1..Len(v.overlays)}
           \cup (IF v.background THEN {bg_duration * FinalDen} ELSE {}))

\* final_video = CompositeVideoClip(valid_clips), set_fps(24) and
\* set_audio(audio_clip.subclip(0, audio_duration)) (lines 612-614); final_video then
\* goes to write_video_robust (line 632)
TlFinal ==
    /\ tpc = "composite"
    /\ final_video' = [made |-> TRUE, end |-> CompositeEnd(valid_clips), den |-> FinalDen,
                       audio |-> audio_duration]
    /\ tpc' = "encode"
    /\ UNCHANGED <<bgSec, audioSec, nChunks, audio_duration, subtitle_start_delay,
                   chunkNum, chunkIdx, clips, bg_duration, chunkLog, valid_clips>>
    /\ UNCHANGED <<batchVars, poolVars, jobVars, chVars, geoVars, fsVars>>

NextTimeline ==
    \/ TlTrim
    \/ TlTitle
    \/ TlTiming
    \/ TlChunk
    \/ TlComposed
    \/ TlValidate
    \/ TlFinal

SpecTimeline == InitTimeline /\ [][NextTimeline]_vars

\* ------------------------------------ the chunking of the body (render_video)

\* bound of the model: the longest body of the exhaustive family below
MaxBodyLen == 7
\* bound of the model: the longest body that is chunked and then timed
MaxComposeLen == 5

\* expanded_body[:1000] + "..." if len(expanded_body) > 1000 (line 439)
TruncateAt == 1000
\* if len(words) <= 3 (line 454)
ShortSentenceWords == 3
\* chunk_size = 2 (line 459)
chunk_size == 2
\* chunks = chunks[:25] (line 465)
MaxCaptionChunks == 25

\* the characters of the class [.!?] of line 445
Terminators == {".", "!", "?"}
\* the characters str.strip() and str.split() take for whitespace
Whitespace == {" ", "\n", "\t"}

\* the characters of the bodies of the model: two letters, a blank, a terminator
BodyAlphabet == {"a", "b", " ", "."}
ComposeAlphabet == {"a", " ", "."}

\* all the texts over an alphabet up to a length
Texts(alphabet, maxLen) == UNION {[1..n -> alphabet] : n \in 0..maxLen}

\* n copies of a text
Repeated(t, n) == [i \in 1..(n * Len(t)) |-> t[((i - 1) % Len(t)) + 1]]

\* bodies that reach the cap on the chunks and the cap on the characters: one-word
\* sentences around the cap of 25, sentences of three words beyond it, and one
\* sentence of more than 1000 characters
LongBodies ==
    {Repeated(<<"a", ".">>, n) : n \in (MaxCaptionChunks - 1)..(MaxCaptionChunks + 2)}
    \cup {Repeated(<<"a", " ", "b", " ", "a", ".">>, MaxCaptionChunks + 1)}
    \cup {Repeated(<<"a", "b", " ">>, (TruncateAt \div 3) + 1)}

\* body_text (line 439)
BodyText(b) ==
    IF Len(b) > TruncateAt THEN SubSeq(b, 1, TruncateAt) \o <<".", ".", ".">> ELSE b

SetMin(S) == CHOOSE x \in S : \A y \in S : x <= y

\* the k-th smallest element of a set of numbers
Kth(S, k) == CHOOSE x \in S : Cardinality({y \in S : y < x}) = k - 1

\* the maximal runs of characters of t that are not in seps, in order: str.split()
\* when seps is the whitespace
SplitOn(t, seps) ==
    LET starts == {i \in 1..Len(t) : t[i] \notin seps /\ (i = 1 \/ t[i - 1] \in seps)}
        ends == {i \in 1..Len(t) : t[i] \notin seps /\ (i = Len(t) \/ t[i + 1] \in seps)}
    IN [k \in 1..Cardinality(starts) |-> SubSeq(t, Kth(starts, k), Kth(ends, k))]

\* re.split(r'[.!?]+', t): the pieces between the runs of terminators, the empty
\* pieces before a leading run and after a trailing run included
ReSplit(t) ==
    LET runStarts == {i \in 1..Len(t) : t[i] \in Terminators /\ (i = 1 \/ t[i - 1] \notin Terminators)}
        runEnds == {i \in 1..Len(t) : t[i] \in Terminators /\ (i = Len(t) \/ t[i + 1] \notin Terminators)}
        n == Cardinality(runStarts)
    IN [k \in 1..(n + 1) |->
          SubSeq(t,
                 IF k = 1 THEN 1 ELSE Kth(runEnds, k - 1) + 1,
                 IF k = n + 1 THEN Len(t) ELSE Kth(runStarts, k) - 1)]

\* sentence.strip() (line 449)
Strip(s) ==
    LET idx == {i \in 1..Len(s) : s[i] \notin Whitespace}
    IN IF idx = {} THEN <<>> ELSE SubSeq(s, SetMin(idx), SetMax(idx))

\* ' '.join(ws) (line 461)
RECURSIVE JoinSpace(_)
JoinSpace(ws) ==
    IF ws = <<>> THEN <<>>
    ELSE IF Len(ws) = 1 THEN ws[1]
    ELSE ws[1] \o <<" ">> \o JoinSpace(Tail(ws))

\* (mutant) the slice taken one word too long: words[i:i + chunk_size + 1]
WordsOfChunkOverlapping(words, k) ==
    SubSeq(words, (k - 1) * chunk_size + 1, Min2(k * chunk_size + 1, Len(words)))

\* words[i:i + chunk_size] for the k-th value of i in range(0, len(words), chunk_size)
WordsOfChunk(words, k) ==
    SubSeq(words, (k - 1) * chunk_size + 1, Min2(k * chunk_size, Len(words)))

\* (mutant) no sentence is skipped
SkippedNever(s) == FALSE

\* if not sentence: continue (lines 450-451)
Skipped(s) == s = <<>>

\* (mutant) every sentence kept whole, whatever its length
SentenceChunksWhole(sentence) == <<sentence>>

\* the chunks one stripped sentence gives (lines 453-462)
SentenceChunks(sentence) ==
    LET words == SplitOn(sentence, Whitespace) IN
    IF Len(words) <= ShortSentenceWords
    THEN <<sentence>>
    ELSE [k \in 1..((Len(words) + chunk_size - 1) \div chunk_size) |->
             JoinSpace(WordsOfChunk(words, k))]

\* the chunking runs on its own, or after the title of a composition
ChunkingTurn == tpc \in {"idle", "timing"}

\* body_text and sentences = re.split(r'[.!?]+', body_text) (lines 439-447)
ChSplit ==
    /\ cpc = "split"
    /\ ChunkingTurn
    /\ sentences' = ReSplit(BodyText(body))
    /\ sentIdx' = 0
    /\ chunks' = <<>>
    /\ cpc' = "sentences"
    /\ UNCHANGED <<body, tlVars, batchVars, poolVars, jobVars, geoVars, fsVars>>

\* one round of "for sentence in sentences" (lines 448-462)
ChSentence ==
    /\ cpc = "sentences"
    /\ ChunkingTurn
    /\ sentIdx < Len(sentences)
    /\ LET sentence == Strip(sentences[sentIdx + 1]) IN
         chunks' = IF Skipped(sentence) THEN chunks ELSE chunks \o SentenceChunks(sentence)
    /\ sentIdx' = sentIdx + 1
    /\ UNCHANGED <<cpc, body, sentences, tlVars, batchVars, poolVars, jobVars, geoVars, fsVars>>

\* chunks = chunks[:25] (line 465); len(chunks) is what the timing uses
ChCap ==
    /\ cpc = "sentences"
    /\ ChunkingTurn
    /\ sentIdx = Len(sentences)
    /\ chunks' = SubSeq(chunks, 1, Min2(Len(chunks), MaxCaptionChunks))
    /\ nChunks' = Min2(Len(chunks), MaxCaptionChunks)
    /\ cpc' = "done"
    /\ UNCHANGED <<body, sentences, sentIdx, tpc, bgSec, audioSec, audio_duration,
                   subtitle_start_delay, chunkNum, chunkIdx, clips, bg_duration, chunkLog,
                   valid_clips, final_video, batchVars, poolVars, jobVars, geoVars, fsVars>>

NextChunk ==
    \/ ChSplit
    \/ ChSentence
    \/ ChCap

InitChunk ==
    /\ cpc = "split"
    /\ body \in Texts(BodyAlphabet, MaxBodyLen) \cup LongBodies
    /\ sentences = <<>>
    /\ sentIdx = 0
    /\ chunks = <<>>
    /\ TlIdle
    /\ GeoIdle
    /\ FsIdle
    /\ JobsIdle

SpecChunk == InitChunk /\ [][NextChunk]_vars

\* the durations, in seconds, of the compositions whose body is chunked
ComposeDurationsSec == {8, 45}

InitCompose ==
    /\ tpc = "trim"
    /\ bgSec \in ComposeDurationsSec
    /\ audioSec \in ComposeDurationsSec
    /\ nChunks = 0
    /\ audio_duration = 0
    /\ subtitle_start_delay = 0
    /\ chunkNum = 0
    /\ chunkIdx = 0
    /\ clips = <<>>
    /\ bg_duration = 0
    /\ chunkLog = <<>>
    /\ valid_clips = NoValidClips
    /\ final_video = NoFinalVideo
    /\ cpc = "split"
    /\ body \in Texts(ComposeAlphabet, MaxComposeLen)
    /\ sentences = <<>>
    /\ sentIdx = 0
    /\ chunks = <<>>
    /\ GeoIdle
    /\ FsIdle
    /\ JobsIdle

NextCompose ==
    \/ NextTimeline
    \/ NextChunk

\* a composition from the body on: cut, title, chunking, timing, captions, validation
SpecCompose == InitCompose /\ [][NextCompose]_vars

\* ------------------------- the fitting of the background to the frame (render_video)

\* bound of the model: the small widths and heights 0..MaxDim are all tried
MaxDim == 16

\* target_width, target_height = 720, 1280 (lines 317-318)
FullWidth == 720
FullHeight == 1280
\* target_width, target_height = 540, 960 (lines 323-324, 329-330)
ReducedWidth == 540
ReducedHeight == 960
\* target_ratio = 9/16 (line 335)
RatioNum == 9
RatioDen == 16
\* ratio_tolerance = 0.01 (line 336), as 1 / ToleranceDen
ToleranceDen == 100

\* the widths and heights a loaded background can have in the model: zero, the small
\* ones, and those of the two target frames
SourceDims ==
    (0..MaxDim) \cup {ReducedWidth, FullWidth, ReducedHeight, FullHeight}
                \cup {352, 616, 640, 1024}

Abs(x) == IF x >= 0 THEN x ELSE -x

\* (mutant) the test without a tolerance: only an exact 9:16 source passes
WithinToleranceExact(w, h) == w * RatioDen = RatioNum * h

\* abs(current_ratio - target_ratio) <= ratio_tolerance with current_ratio = w / h
\* (lines 334-338), for h > 0: |w/h - 9/16| = |16 w - 9 h| / (16 h), compared with
\* 1/100 in whole numbers
WithinTolerance(w, h) ==
    LET diffNum == Abs(w * RatioDen - RatioNum * h)
        diffDen == h * RatioDen
    IN diffNum * ToleranceDen <= diffDen

GeoOp(op, w, h) == [op |-> op, w |-> w, h |-> h]

\* the triples <<t, s, x>> with s, x among the sizes 1..24, 352, 540, 616, 640, 720,
\* 960, 1024, 1280 and t a target side for which the expression (t / s) * x, evaluated
\* as Python evaluates it in double precision, is just below the whole number
\* t * x / s, so that int() of it is one less
FloatShort ==
    {<<960, 11, 11>>, <<960, 11, 22>>, <<960, 11, 352>>, <<960, 11, 616>>,
     <<960, 13, 13>>, <<960, 22, 11>>, <<960, 22, 22>>, <<960, 22, 352>>,
     <<960, 22, 616>>, <<960, 352, 11>>, <<960, 352, 22>>, <<960, 352, 352>>,
     <<960, 352, 616>>, <<1280, 616, 616>>}

\* (mutant) the product in exact arithmetic
ScaledExact(t, s, x) == (t * x) \div s

\* int(scale * x) for scale = t / s: the side x of the frame after resize(scale),
\* where the resizer cuts the product to a whole number
Scaled(t, s, x) ==
    IF <<t, s, x>> \in FloatShort THEN ((t * x) \div s) - 1 ELSE (t * x) \div s

\* the size after background_video.resize(scale) with scale = max(scale_w, scale_h),
\* scale_w = target_width / w and scale_h = target_height / h (lines 350-355)
ScaledToFill(w, h, tw, th) ==
    IF tw * h >= th * w
    THEN [w |-> Scaled(tw, w, w), h |-> Scaled(tw, w, h)]
    ELSE [w |-> Scaled(th, h, w), h |-> Scaled(th, h, h)]

\* int(n / 2) for a whole number n: the cut is towards zero
HalfTowardsZero(n) == IF n >= 0 THEN n \div 2 ELSE -((-n) \div 2)

\* the side a frame of side size keeps after crop(x_center=size / 2, width=t)
\* (lines 358-363): the window runs from int(size / 2 - t / 2) to
\* int(size / 2 + t / 2) and is cut to the frame
CropSpan(size, t) ==
    Min2(HalfTowardsZero(size + t), size) - Max2(HalfTowardsZero(size - t), 0)

InitGeometry ==
    /\ gpc = "target"
    /\ srcW \in SourceDims
    /\ srcH \in SourceDims
    /\ bigFile \in BOOLEAN
    /\ target_width = 0
    /\ target_height = 0
    /\ frameW = srcW
    /\ frameH = srcH
    /\ geoOps = <<>>
    /\ geoError = "none"
    /\ TlIdle
    /\ ChIdle
    /\ JobsIdle
    /\ FsIdle

\* the target frame: 720x1280, or 540x960 for a file of more than 50 MB (lines 315-331)
GeoTarget ==
    /\ gpc = "target"
    /\ target_width' = IF bigFile THEN ReducedWidth ELSE FullWidth
    /\ target_height' = IF bigFile THEN ReducedHeight ELSE FullHeight
    /\ gpc' = "ratio"
    /\ UNCHANGED <<srcW, srcH, bigFile, frameW, frameH, geoOps, geoError>>
    /\ UNCHANGED <<batchVars, poolVars, jobVars, tlVars, chVars, fsVars>>

\* current_ratio = background_video.w / background_video.h (line 334): the division
\* raises ZeroDivisionError for a height of 0, which the except clause of line 683
\* turns into the HTTPException "Video rendering failed"
GeoRatio ==
    /\ gpc = "ratio"
    /\ IF frameH = 0
       THEN /\ geoError' = "ZeroDivisionError"
            /\ gpc' = "raised"
       ELSE /\ gpc' = "fit"
            /\ UNCHANGED geoError
    /\ UNCHANGED <<srcW, srcH, bigFile, target_width, target_height, frameW, frameH, geoOps>>
    /\ UNCHANGED <<batchVars, poolVars, jobVars, tlVars, chVars, fsVars>>

\* lines 338-364: a source within the tolerance is resized to the target unless it has
\* that size already; any other source is scaled to fill the target and cropped to it
\* around its centre, and target_width / background_video.w (line 350) raises
\* ZeroDivisionError for a width of 0
GeoFit ==
    /\ gpc = "fit"
    /\ IF WithinTolerance(frameW, frameH)
       THEN /\ IF frameW # target_width \/ frameH # target_height
               THEN /\ geoOps' = Append(geoOps, GeoOp("resize", target_width, target_height))
                    /\ frameW' = target_width
                    /\ frameH' = target_height
               ELSE UNCHANGED <<geoOps, frameW, frameH>>
            /\ gpc' = "done"
            /\ UNCHANGED geoError
       ELSE IF frameW = 0
            THEN /\ geoError' = "ZeroDivisionError"
                 /\ gpc' = "raised"
                 /\ UNCHANGED <<geoOps, frameW, frameH>>
            ELSE LET scaled == ScaledToFill(frameW, frameH, target_width, target_height)
                     cropW == CropSpan(scaled.w, target_width)
                     cropH == CropSpan(scaled.h, target_height)
                 IN
                 /\ geoOps' = geoOps \o <<GeoOp("resize", scaled.w, scaled.h),
                                          GeoOp("crop", cropW, cropH)>>
                 /\ frameW' = cropW
                 /\ frameH' = cropH
                 /\ gpc' = "done"
                 /\ UNCHANGED geoError
    /\ UNCHANGED <<srcW, srcH, bigFile, target_width, target_height>>
    /\ UNCHANGED <<batchVars, poolVars, jobVars, tlVars, chVars, fsVars>>

NextGeometry ==
    \/ GeoTarget
    \/ GeoRatio
    \/ GeoFit

SpecGeometry == InitGeometry /\ [][NextGeometry]_vars

\* ------------------------------------ the files of concurrent jobs (render_video)

\* the files a job makes in its directory: the narration, the background, the
\* encoder's temporary files and the output, all named os.path.join(temp_dir,
\* f"{video_id}_...") (lines 184, 207, 221, 233, 278, 291, 302)
FileKinds == {"audio", "background", "temp", "output"}

\* (mutant) a directory name that does not depend on what exists: every job works
\* in the first directory
MkdtempShared == {1}

\* the names tempfile.mkdtemp() may return: it makes a directory that did not exist
MkdtempChoices == {d \in DirNames : ~disk[d].made}

\* job j reads, writes or removes something in directory d: the access is noted
\* when the directory was made by another job
Access(j, d, op) ==
    foreign' = IF disk[d].owner # j
               THEN foreign \cup {[job |-> j, dir |-> d, op |-> op]}
               ELSE foreign

\* the job leaves the try block with an exception: finally comes next (line 687)
FsRaise(j) == fpc' = [fpc EXCEPT ![j] = "finally"]

\* temp_dir = tempfile.mkdtemp() (line 272), in a worker thread of the pool
FsMkTemp(j) ==
    /\ fpc[j] = "mkdtemp"
    /\ \E ok \in BOOLEAN :
         IF ok /\ MkdtempChoices # {}
         THEN \E d \in MkdtempChoices :
                /\ temp_dir' = [temp_dir EXCEPT ![j] = d]
                /\ disk' = IF disk[d].made
                           THEN disk
                           ELSE [disk EXCEPT ![d] = [made |-> TRUE, owner |-> j, files |-> {}]]
                /\ fpc' = [fpc EXCEPT ![j] = "download_audio"]
         ELSE /\ FsRaise(j)
              /\ UNCHANGED <<temp_dir, disk>>
    /\ UNCHANGED foreign
    /\ UNCHANGED <<batchVars, poolVars, jobVars, tlVars, chVars, geoVars>>

\* open(os.path.join(temp_dir, filename), 'wb') and the writes (lines 117-120): the
\* file is made or overwritten in the job's temp_dir; open raises when the directory
\* is not there, and the download can fail
FsWrite(j, kind, next) ==
    LET d == temp_dir[j] IN
    \E ok \in BOOLEAN :
        IF ok /\ disk[d].made
        THEN /\ disk' = [disk EXCEPT ![d].files = @ \cup {kind}]
             /\ Access(j, d, "write")
             /\ fpc' = [fpc EXCEPT ![j] = next]
        ELSE /\ FsRaise(j)
             /\ UNCHANGED <<disk, foreign>>

\* download_file(narration_url, temp_dir, f"{video_id}_audio.mp3") (line 291)
FsDownloadAudio(j) ==
    /\ fpc[j] = "download_audio"
    /\ FsWrite(j, "audio", "download_background")
    /\ UNCHANGED temp_dir
    /\ UNCHANGED <<batchVars, poolVars, jobVars, tlVars, chVars, geoVars>>

\* download_file(background_url, temp_dir, f"{video_id}_background.mp4") (line 302)
FsDownloadBackground(j) ==
    /\ fpc[j] = "download_background"
    /\ FsWrite(j, "background", "load")
    /\ UNCHANGED temp_dir
    /\ UNCHANGED <<batchVars, poolVars, jobVars, tlVars, chVars, geoVars>>

\* VideoFileClip(background_path) and AudioFileClip(audio_path) (lines 312, 375) read
\* the two files; a file that is not there, or does not decode, raises
FsLoad(j) ==
    /\ fpc[j] = "load"
    /\ LET d == temp_dir[j] IN
       \E ok \in BOOLEAN :
         IF ok /\ {"audio", "background"} \subseteq disk[d].files
         THEN /\ Access(j, d, "read")
              /\ fpc' = [fpc EXCEPT ![j] = "encode"]
         ELSE /\ FsRaise(j)
              /\ UNCHANGED foreign
    /\ UNCHANGED <<temp_dir, disk>>
    /\ UNCHANGED <<batchVars, poolVars, jobVars, tlVars, chVars, geoVars>>

\* write_video_robust(final_video, output_path, temp_dir, video_id) (line 632): the
\* encoder reads the two sources and writes its temporary files and the output in
\* temp_dir; when every method fails the temporary files may be all it leaves
FsEncode(j) ==
    /\ fpc[j] = "encode"
    /\ LET d == temp_dir[j] IN
       \E ok \in BOOLEAN :
         IF ~disk[d].made
         THEN /\ FsRaise(j)
              /\ UNCHANGED <<disk, foreign>>
         ELSE /\ disk' = [disk EXCEPT ![d].files = @ \cup (IF ok THEN {"output"} ELSE {"temp"})]
              /\ Access(j, d, "write")
              /\ IF ok THEN fpc' = [fpc EXCEPT ![j] = "upload"] ELSE FsRaise(j)
    /\ UNCHANGED temp_dir
    /\ UNCHANGED <<batchVars, poolVars, jobVars, tlVars, chVars, geoVars>>

\* os.path.getsize(output_path) and upload_to_dropbox(output_path, dropbox_path), which
\* opens output_path for reading (lines 648-657); the return statement follows, and
\* the finally clause
FsUpload(j) ==
    /\ fpc[j] = "upload"
    /\ LET d == temp_dir[j] IN
       IF "output" \in disk[d].files
       THEN Access(j, d, "read")
       ELSE UNCHANGED foreign
    /\ fpc' = [fpc EXCEPT ![j] = "finally"]
    /\ UNCHANGED <<temp_dir, disk>>
    /\ UNCHANGED <<batchVars, poolVars, jobVars, tlVars, chVars, geoVars>>

\* if temp_dir and os.path.exists(temp_dir): shutil.rmtree(temp_dir), whose failure
\* is swallowed (lines 687-694)
FsCleanup(j) ==
    /\ fpc[j] = "finally"
    /\ LET d == temp_dir[j] IN
       IF d # 0 /\ disk[d].made
       THEN /\ Access(j, d, "delete")
            /\ \E removed \in BOOLEAN :
                 disk' = IF removed THEN [disk EXCEPT ![d] = NoDir] ELSE disk
       ELSE UNCHANGED <<disk, foreign>>
    /\ fpc' = [fpc EXCEPT ![j] = "done"]
    /\ UNCHANGED temp_dir
    /\ UNCHANGED <<batchVars, poolVars, jobVars, tlVars, chVars, geoVars>>

FsStep(j) ==
    \/ FsMkTemp(j)
    \/ FsDownloadAudio(j)
    \/ FsDownloadBackground(j)
    \/ FsLoad(j)
    \/ FsEncode(j)
    \/ FsUpload(j)
    \/ FsCleanup(j)

\* the jobs of a batch are in the worker threads of the pool (at most three at a
\* time, line 723) and their steps interleave freely
InitFiles ==
    /\ fpc = [j \in Jobs |-> "mkdtemp"]
    /\ temp_dir = [j \in Jobs |-> 0]
    /\ disk = [d \in DirNames |-> NoDir]
    /\ foreign = {}
    /\ TlIdle
    /\ ChIdle
    /\ GeoIdle
    /\ JobsIdle

NextFiles == \E j \in Jobs : FsStep(j)

SpecFiles == InitFiles /\ [][NextFiles]_vars

\* C8 (as claimed): every overlay clip, the title and each caption with its overlap,
\* starts at or after 0 and ends at or before the timeline duration
ClipsWithinTimeline ==
    \A i \in 1..Len(clips) :
        /\ clips[i].start >= 0
        /\ clips[i].start + clips[i].dur <= audio_duration * clips[i].den

\* the words of a sequence of texts, in order
RECURSIVE WordsOfAll(_)
WordsOfAll(ts) ==
    IF ts = <<>> THEN <<>> ELSE SplitOn(Head(ts), Whitespace) \o WordsOfAll(Tail(ts))

IsPrefix(p, s) == Len(p) <= Len(s) /\ SubSeq(s, 1, Len(p)) = p

\* C12 (amended): the words of the caption chunks, read in order, are the words of
\* the (possibly truncated) body in the same order, where the terminators . ! ? of the
\* body separate words and appear in no chunk; no word is altered or reordered, and
\* words are missing only after the 25th chunk: with fewer than 25 chunks every word
\* of the body is in a chunk.
ChunksKeepWordsInOrder ==
    cpc = "done" =>
        LET cw == WordsOfAll(chunks)
            bw == SplitOn(BodyText(body), Whitespace \cup Terminators)
        IN /\ IsPrefix(cw, bw)
           /\ (Len(chunks) < MaxCaptionChunks => cw = bw)
           /\ Len(chunks) <= MaxCaptionChunks
           /\ \A i \in 1..Len(chunks) :
                 /\ chunks[i] # <<>>
                 /\ \A k \in 1..Len(chunks[i]) : chunks[i][k] \notin Terminators

\* a body of two sentences, one of them cut into chunks of two words
ChunksKeepWordsWitness ==
    /\ cpc = "done"
    /\ Len(sentences) >= 2
    /\ Len(chunks) >= 3
    /\ \E i \in 1..Len(body) : body[i] \in Terminators
    /\ \E i \in 1..Len(chunks) : \E k \in 1..Len(chunks[i]) : chunks[i][k] = " "

\* C12 (as claimed): the chunk texts joined by single spaces are the (possibly
\* truncated) body with its whitespace normalized to single spaces
ChunksReproduceBody ==
    cpc = "done" => JoinSpace(chunks) = JoinSpace(SplitOn(BodyText(body), Whitespace))

\* the calls of one kind made on the background
OpsOf(kind) == {i \in 1..Len(geoOps) : geoOps[i].op = kind}

ZeroDimensionCheckedFirst ==
    (srcW = 0 \/ srcH = 0) =>
        /\ geoError # "ZeroDivisionError"
        /\ (gpc \in {"done", "raised"} => (gpc = "raised" /\ geoError = "InvalidMedia"))

IsCaption(c) == c.kind = "caption"
IsTitle(c) == c.kind = "title"
Captions == SelectSeq(clips, IsCaption)
Titles == SelectSeq(clips, IsTitle)

\* the composition is past the caption loop
Composed == tpc \in {"composed", "composite", "encode", "raised"}

\* C13 (as claimed): when the title and every chunk rendered, a body of n words gives
\* exactly one title clip and exactly ceil(n / chunk_size) caption clips, however it is
\* punctuated, and the time from the start of the first caption to the end of the last
\* is at most the timeline duration
CaptionCountAndSpan ==
    (Composed /\ Titles # <<>> /\ Len(Captions) = Len(chunks)) =>
        LET n == Len(SplitOn(body, Whitespace))
            first == Captions[1]
            last == Captions[Len(Captions)]
        IN /\ Len(Titles) = 1
           /\ Len(Captions) = (n + chunk_size - 1) \div chunk_size
           /\ (Captions # <<>> =>
                  last.start + last.dur - first.start <= audio_duration * last.den)

\* C16 (as claimed): a composition with no overlay clip, the title skipped and no
\* caption rendered, never reaches the composite and the encoder; one with at least
\* one overlay clip can go on to the composite
NoOverlayNeverEncoded ==
    /\ (tpc \in {"composite", "encode"} => clips # <<>>)
    /\ ((tpc = "composed" /\ clips # <<>>) => ENABLED (TlValidate /\ tpc' = "composite"))

LastChunk == chunkIdx - 1

\* the caption clips that start when chunk i starts
ClipsOfChunk(i) ==
    {k \in 1..Len(clips) :
        /\ clips[k].kind = "caption"
        /\ clips[k].start = CaptionClip(i, "primary").start}

TiersTried(tier) == {k \in 1..Len(chunkLog) : chunkLog[k].tier = tier}

\* C19: in every round of the caption loop the primary style is tried first and once;
\* when it fails the simpler style is tried exactly once, and when that fails too the
\* chunk is dropped with no further TextClip attempt; the simpler style is not tried
\* after a primary success; after any round the next chunk can be processed, and after
\* the last the composition goes on; every chunk gives at most one overlay clip.
CaptionRetryOnce ==
    /\ (tpc = "chunks" /\ chunkIdx > 0 =>
           /\ Len(chunkLog) >= 1
           /\ chunkLog[1].tier = "primary"
           /\ Cardinality(TiersTried("primary")) = 1
           /\ (~chunkLog[1].ok =>
                  /\ Len(chunkLog) >= 2
                  /\ chunkLog[2].tier = "fallback"
                  /\ Cardinality(TiersTried("fallback")) = 1
                  /\ (~chunkLog[2].ok =>
                         /\ Len(chunkLog) = 2
                         /\ ClipsOfChunk(LastChunk) = {}))
           /\ (chunkLog[1].ok => TiersTried("fallback") = {}))
    /\ (tpc = "chunks" /\ chunkIdx < nChunks => ENABLED TlChunk)
    /\ (tpc = "chunks" /\ chunkIdx = nChunks => ENABLED TlComposed)
    /\ (Composed => chunkIdx = nChunks)
    /\ \A i \in 0..(nChunks - 1) :
          /\ Cardinality(ClipsOfChunk(i)) <= 1
          /\ (i >= chunkIdx => ClipsOfChunk(i) = {})

\* the second of three chunks was dropped after both styles failed, the first had
\* given a clip, and the third is still to come
CaptionRetryWitness ==
    /\ tpc = "chunks"
    /\ nChunks = 3
    /\ chunkIdx = 2
    /\ chunkLog = <<Attempt("primary", FALSE), Attempt("fallback", FALSE)>>
    /\ Len(Captions) = 1

\* min(audio duration, background duration, 45 s), in ticks
TimelineDuration ==
    Min2(Min2(audioSec, bgSec), 45) * TicksPerSecond

\* C20 (as claimed): the background clip, the narration attached to the composite and
\* the composite itself all last min(audio duration, background duration, 45 s)
OneTimelineDuration ==
    /\ (tpc \notin {"idle", "trim"} =>
           /\ audio_duration = TimelineDuration
           /\ bg_duration = TimelineDuration)
    /\ (tpc = "encode" =>
           /\ final_video.audio = TimelineDuration
           /\ final_video.end = TimelineDuration * final_video.den)

\* the frame after the resize of the crop branch
ScaledFrame == geoOps[1]

\* C21 (as claimed): for a source outside the tolerance with positive width and
\* height, the frame scaled by max(target_width / w, target_height / h) is at least
\* target_width wide and target_height high, the centred crop window starts at or
\* after 0 on both axes, and the cropped frame has exactly the target size
ScaleFillsTarget ==
    (gpc = "done" /\ OpsOf("crop") # {}) =>
        /\ ScaledFrame.w >= target_width
        /\ ScaledFrame.h >= target_height
        /\ ScaledFrame.w - target_width >= 0
        /\ ScaledFrame.h - target_height >= 0
        /\ frameW = target_width
        /\ frameH = target_height

\* clip a starts no later than clip b (their starts are fractions of a tick)
StartsNoLater(a, b) == a.start * b.den <= b.start * a.den

\* C22: the overlay clips are appended in non-decreasing order of their start: the
\* title, when there is one, is the first and starts at 0, the captions follow in the
\* order of their chunks, each starting after the one before; this holds also when
\* chunks were dropped or came from a fallback rendering
OverlaysInStartOrder ==
    /\ \A i, k \in 1..Len(clips) : i < k => StartsNoLater(clips[i], clips[k])
    /\ \A i \in 1..Len(clips) : IsTitle(clips[i]) => i = 1 /\ clips[i].start = 0
    /\ \A i, k \in 1..Len(Captions) :
          i < k => ~StartsNoLater(Captions[k], Captions[i])

\* a title and two captions of three chunks: one chunk was dropped and one of the
\* two came from a fallback rendering
OverlaysInStartOrderWitness ==
    /\ Composed
    /\ nChunks = 3
    /\ Len(Titles) = 1
    /\ Len(Captions) = 2
    /\ \E i \in 1..2 : Captions[i].tier \in {"fallback", "simple"}

\* the chunks of a sequence of sentences before the cap of line 465
RECURSIVE ChunksOf(_)
ChunksOf(ss) ==
    IF ss = <<>> THEN <<>>
    ELSE LET sentence == Strip(Head(ss)) IN
         (IF Skipped(sentence) THEN <<>> ELSE SentenceChunks(sentence)) \o ChunksOf(Tail(ss))

WordCount(chunk) == Len(SplitOn(chunk, Whitespace))

\* C23 (as claimed): there are at most 25 chunks, every chunk is non-empty and has at
\* most chunk_size words, and the chunks kept by the cap are a prefix of the uncapped
\* sequence of chunks
ChunksWithinChunkSize ==
    cpc = "done" =>
        /\ Len(chunks) <= MaxCaptionChunks
        /\ \A i \in 1..Len(chunks) :
              /\ chunks[i] # <<>>
              /\ WordCount(chunks[i]) >= 1
              /\ WordCount(chunks[i]) <= chunk_size
        /\ IsPrefix(chunks, ChunksOf(sentences))

\* C23 (amended): there are at most 25 chunks, every chunk is non-empty and has at
\* most three words, a chunk of three words being a whole sentence of the body and
\* every chunk cut out of a longer sentence having at most chunk_size = 2 words; the
\* chunks kept by the cap are a prefix of the uncapped sequence of chunks, and their
\* words are in the order of the body
ChunksBounded ==
    cpc = "done" =>
        /\ Len(chunks) <= MaxCaptionChunks
        /\ \A i \in 1..Len(chunks) :
              /\ chunks[i] # <<>>
              /\ WordCount(chunks[i]) >= 1
              /\ WordCount(chunks[i]) <= ShortSentenceWords
              /\ (WordCount(chunks[i]) > chunk_size =>
                     \E k \in 1..Len(sentences) : Strip(sentences[k]) = chunks[i])
        /\ IsPrefix(chunks, ChunksOf(sentences))
        /\ IsPrefix(WordsOfAll(chunks),
                    SplitOn(BodyText(body), Whitespace \cup Terminators))

\* a body of 26 sentences of three words: the cap keeps 25 chunks of three words
ChunksBoundedWitness ==
    /\ cpc = "done"
    /\ Len(chunks) = MaxCaptionChunks
    /\ Len(ChunksOf(sentences)) > MaxCaptionChunks
    /\ \E i \in 1..Len(chunks) : WordCount(chunks[i]) = ShortSentenceWords

\* job j has a directory it has not yet cleaned up
HoldsDir(j) == temp_dir[j] # 0 /\ fpc[j] # "done"

\* C24: while jobs run at the same time, the directories they hold are different,
\* every directory on disk was made by the job that holds or held it, and no job
\* has read, written or removed anything in a directory made by another job
PrivateFiles ==
    /\ \A j, k \in Jobs : (j # k /\ HoldsDir(j) /\ HoldsDir(k)) => temp_dir[j] # temp_dir[k]
    /\ \A d \in DirNames : disk[d].made => temp_dir[disk[d].owner] = d
    /\ foreign = {}

\* job 1 has removed its directory while job 2, which got its own directory when
\* that of job 1 was there, still has its output on disk
PrivateFilesWitness ==
    /\ fpc[1] = "done"
    /\ temp_dir[1] # 0
    /\ ~disk[temp_dir[1]].made
    /\ temp_dir[2] # 0
    /\ temp_dir[2] # temp_dir[1]
    /\ fpc[2] = "finally"
    /\ "output" \in disk[temp_dir[2]].files

\* the batch call is past the computation of max_workers
PoolSized == bpc \notin {"idle", "start"}

\* C25 (as claimed): for every batch request, an empty list of videos and a requested
\* max_concurrent of zero included, the size of the worker pool is at least 1 and at
\* most 3, the batch call does not fail while it makes the pool, and for an empty list
\* it returns a summary with total 0 and no results
PoolSizeClamped ==
    /\ (PoolSized => (max_workers >= 1 /\ max_workers <= HostCap))
    /\ ((nVideos = 0 \/ max_concurrent <= 0) => bpc # "crashed")
    /\ ((nVideos = 0 /\ bpc \notin {"idle", "start", "create_pool"}) =>
            (BatchReturned \/ ENABLED Next))
    /\ ((nVideos = 0 /\ summary.made) =>
            (summary.total_videos = 0 /\ summary.results = <<>>))

\* write_video_robust returned True for job j after one of its strategies ended well
EncoderSucceeded(j) ==
    /\ writeSuccess[j] = "True"
    /\ attempts[j] # <<>>
    /\ attempts[j][Len(attempts[j])].ended = "ok"

\* C26: upload_to_dropbox is called at most once for a job, and only after a strategy
\* of the encoder succeeded and the output file was found with a size above zero; it
\* is never called for a job that failed, and always before the job's cleanup: at the
\* call the directory has not been cleaned up, and after the cleanup the job makes no
\* further step of render_video
UploadOnceAfterVerifiedOutput ==
    \A j \in Jobs :
        /\ uploads[j] <= 1
        /\ (uploads[j] = 1 => (EncoderSucceeded(j) /\ outBytes[j] > 0))
        /\ (uploads[j] = 1 => outcome[j] \in {"none", "ok"})
        /\ (outcome[j] \notin {"none", "ok"} => uploads[j] = 0)
        /\ (pc[j] = "upload" => (uploads[j] = 0 /\ cleanups[j] = 0 /\ OutputExists(j)))
        /\ (cleanups[j] > 0 => pc[j] \in {"wrapper", "returned"})

\* a job whose first strategy failed and whose next one succeeded was uploaded once
\* and then cleaned up
UploadOnceWitness ==
    \E j \in Jobs :
        /\ pc[j] = "returned"
        /\ uploads[j] = 1
        /\ cleanups[j] = 1
        /\ Len(attempts[j]) >= 2
        /\ outcome[j] = "ok"

\* the upload of job j was made and returned False
UploadFailed(j) == uploads[j] = 1 /\ ~uploadOk[j]

\* C27: a job whose encoding succeeded and whose upload failed does not fail: it goes
\* on to the return statement, its result is a success with dropbox_path None, the
\* wrapper reports success, and the batch counts it among the successful renders
FailedUploadStillSucceeds ==
    /\ \A j \in Jobs :
          UploadFailed(j) =>
              /\ EncoderSucceeded(j)
              /\ pc[j] \in {"return", "finally", "wrapper", "returned"}
              /\ outcome[j] = IF pc[j] = "return" THEN "none" ELSE "ok"
              /\ Result(j).dropbox_path = "None"
              /\ (pc[j] = "returned" =>
                     (future[j].kind = "result" /\ future[j].success))
              /\ \A i \in 1..Len(results) : results[i].job = j => results[i].success
    /\ (summary.made =>
           summary.successful_renders >= Cardinality({j \in Submitted : UploadFailed(j)}))

\* a batch whose summary counts as successful a job whose upload failed
FailedUploadWitness ==
    /\ summary.made
    /\ summary.successful_renders >= 1
    /\ \E j \in Submitted :
          /\ UploadFailed(j)
          /\ \E i \in 1..Len(summary.results) :
                summary.results[i].job = j /\ summary.results[i].success

====
